---------------------------- MODULE Spec2Model ----------------------------
(***************************************************************************)
(* Model of inflammation/models.py: the daily statistics of a 2D           *)
(* inflammation table, the per-patient normalisation, and the standard     *)
(* deviation by day across datasets.                                       *)
(*                                                                         *)
(* Numbers.  A number is written as a rational <<n, d>> with d > 0 in      *)
(* lowest terms and stands for the binary64 value nearest to n/d (what     *)
(* np.loadtxt makes of the text "0.1" is <<1, 10>>); <<0, 0>> is NaN and   *)
(* <<1, 0>>, <<-1, 0>> are +inf, -inf, with the propagation rules of IEEE  *)
(* arithmetic (NaN absorbs, 0/0 = NaN, x/0 = +-inf, every comparison with  *)
(* NaN is false).  Sums of integers are exact in binary64 and a quotient   *)
(* of two integers is rounded once, so on integers the rational n/d is the *)
(* value numpy holds.  np.mean of a column with a fractional entry and     *)
(* np.std are computed in binary64 itself, every addition, subtraction,    *)
(* multiplication, division and square root rounded to 53 bits (ties to    *)
(* even); a result that is not the binary64 nearest to a rational of the   *)
(* model is the 6-tuple <<s, e, l1, l2, l3, l4>> =                         *)
(* s * (l1*B^3 + l2*B^2 + l3*B + l4) * 2^e with B = 2^15.  The exponent    *)
(* range of binary64 is not modelled: no value of the model comes near it. *)
(*                                                                         *)
(* Tables.  A table is a sequence of rows, a row a sequence of numbers.    *)
(* <<>> is the table without rows (np.array([])), << <<>>, <<>> >> a table *)
(* of two rows and no columns, and a table whose rows differ in length is  *)
(* ragged (it has no ndarray form: numpy >= 1.24 refuses to build one, and  *)
(* it reaches the operations as a list of lists).                          *)
(*                                                                         *)
(* Outcomes.  An operation ends in [kind, ndim, value]: kind "ok" with the *)
(* returned array (ndim 0: a scalar held as a one-element sequence,        *)
(* ndim 1: a series, ndim 2: a table), or the exception raised.            *)
(***************************************************************************)
EXTENDS Integers, Sequences, FiniteSets

VARIABLES
    data,     \* the argument of the operation: a table, or a collection of tables
    given,    \* the argument as the caller built it (never written by the model)
    op,       \* the operation that has run on data ("none" before it runs)
    result,   \* the outcome of that operation
    calls,    \* the methods the operation invoked on its data source
    prev      \* the previous run [data, op, result], or NoRun

vars == <<data, given, op, result, calls, prev>>

\* Largest number of cells (rows * columns, summed over a collection) of an input.
MaxCells == 4
\* Measurements range over -1 .. MaxVal and NaN; those of the daily statistics also
\* over the tenths 1/10 .. MaxVal/10.
MaxVal == 2

--------------------------------------------------------------------------
(* Arithmetic on rationals with NaN and infinities *)

NaN == <<0, 0>>
Num(i) == <<i, 1>>
Zero == Num(0)
One == Num(1)

IsNaN(x) == x[1] = 0 /\ x[2] = 0
IsFinite(x) == x[2] # 0

Abs(i) == IF i < 0 THEN 0 - i ELSE i
Sign(i) == IF i < 0 THEN 0 - 1 ELSE IF i > 0 THEN 1 ELSE 0

RECURSIVE GCD(_, _)
GCD(a, b) == IF b = 0 THEN a ELSE GCD(b, a % b)

\* The number n/d in lowest terms with a positive denominator (d = 0: NaN or +-inf).
Norm(n, d) ==
    IF d = 0 THEN <<Sign(n), 0>>
    ELSE LET g == GCD(Abs(n), Abs(d))
             s == Sign(d)
         IN  <<(s * n) \div g, (s * d) \div g>>

Add(x, y) == IF IsNaN(x) \/ IsNaN(y) THEN NaN
             ELSE IF ~IsFinite(x) /\ ~IsFinite(y) THEN (IF x[1] = y[1] THEN x ELSE NaN)
             ELSE Norm(x[1] * y[2] + y[1] * x[2], x[2] * y[2])
Neg(x) == <<0 - x[1], x[2]>>
Sub(x, y) == Add(x, Neg(y))
Mul(x, y) == IF IsNaN(x) \/ IsNaN(y) THEN NaN
             ELSE IF (~IsFinite(x) /\ y[1] = 0) \/ (~IsFinite(y) /\ x[1] = 0) THEN NaN
             ELSE Norm(x[1] * y[1], x[2] * y[2])
Div(x, y) == IF IsNaN(x) \/ IsNaN(y) THEN NaN
             ELSE IF ~IsFinite(x) /\ ~IsFinite(y) THEN NaN
             ELSE IF ~IsFinite(x) THEN <<x[1] * (IF y[1] < 0 THEN 0 - 1 ELSE 1), 0>>
             ELSE Norm(x[1] * y[2], x[2] * y[1])

\* x < y; false when either is NaN.
Lt(x, y) == IF IsNaN(x) \/ IsNaN(y) THEN FALSE
            ELSE IF x[2] = 0 /\ y[2] = 0 THEN x[1] < y[1]
            ELSE x[1] * y[2] < y[1] * x[2]
Le(x, y) == IF IsNaN(x) \/ IsNaN(y) THEN FALSE ELSE ~Lt(y, x)

\* The integer square root of n: r plus the largest sum of the powers of two bit,
\* bit/2, ..., 1 whose square stays <= n (r = 0 and bit^2 > n to begin with).
RECURSIVE IntRoot(_, _, _)
IntRoot(n, r, bit) ==
    IF bit = 0 THEN r
    ELSE IntRoot(n, IF r + bit <= n \div (r + bit) THEN r + bit ELSE r, bit \div 2)

\* The integer square root of n when n is a perfect square, else -1.
ExactRootOf(n, r) == IF r * r = n THEN r ELSE 0 - 1
ExactRoot(n) == ExactRootOf(n, IntRoot(n, 0, 2^15))

\* The exact square root of a number >= 0: the rational root when there is one, else
\* the surd <<n, d, 2>> = (n/d)^(1/2).
Sqrt(x) ==
    IF IsNaN(x) \/ Lt(x, Zero) THEN NaN
    ELSE IF ~IsFinite(x) THEN x
    ELSE IF ExactRoot(x[1]) >= 0 /\ ExactRoot(x[2]) >= 0
         THEN <<ExactRoot(x[1]), ExactRoot(x[2])>>
         ELSE <<x[1], x[2], 2>>

RECURSIVE SumSeq(_)
SumSeq(s) == IF s = <<>> THEN Zero ELSE Add(Head(s), SumSeq(Tail(s)))

\* The mean of the squared deviations of the numbers of s from their mean.
MeanSquaredDeviation(s, mu) ==
    Div(SumSeq([k \in 1..Len(s) |-> Mul(Sub(s[k], mu), Sub(s[k], mu))]), Num(Len(s)))
PopulationVarianceOf(s) == MeanSquaredDeviation(s, Div(SumSeq(s), Num(Len(s))))

--------------------------------------------------------------------------
(* binary64 arithmetic, correctly rounded: +, -, *, division by a count, sqrt *)

\* binary64: a significand of 53 bits.
Precision == 53

\* A natural number of any size is a sequence of limbs, most significant first, each
\* in 0 .. Base - 1; <<>> is 0.
Base == 2^15

RECURSIVE BitLen(_)
BitLen(n) == IF n = 0 THEN 0 ELSE 1 + BitLen(n \div 2)
LimbBits == BitLen(Base) - 1

RECURSIVE BigOf(_)
BigOf(n) == IF n = 0 THEN <<>> ELSE Append(BigOf(n \div Base), n % Base)

RECURSIVE BigStrip(_)
BigStrip(limbs) == IF limbs # <<>> /\ Head(limbs) = 0 THEN BigStrip(Tail(limbs)) ELSE limbs

BigBits(limbs) ==
    IF limbs = <<>> THEN 0 ELSE LimbBits * (Len(limbs) - 1) + BitLen(limbs[1])

BigPad(limbs, len) == [i \in 1..(len - Len(limbs)) |-> 0] \o limbs
BigFront(limbs) == SubSeq(limbs, 1, Len(limbs) - 1)

\* p + q + carry, for p and q of the same length.
RECURSIVE BigAdd(_, _, _)
BigAdd(p, q, carry) ==
    IF p = <<>> THEN BigOf(carry)
    ELSE LET digit == p[Len(p)] + q[Len(q)] + carry
         IN  Append(BigAdd(BigFront(p), BigFront(q), digit \div Base), digit % Base)

\* p - q - borrow, for p >= q of the same length.
RECURSIVE BigSub(_, _, _)
BigSub(p, q, borrow) ==
    IF p = <<>> THEN <<>>
    ELSE LET digit == p[Len(p)] - q[Len(q)] - borrow
         IN  Append(BigSub(BigFront(p), BigFront(q), IF digit < 0 THEN 1 ELSE 0),
                    (digit + Base) % Base)

\* p < q, for p and q of the same length.
BigLt(p, q) == \E i \in 1..Len(p) : p[i] < q[i] /\ \A j \in 1..(i - 1) : p[j] = q[j]

\* p * factor + carry, for factor <= Base.
RECURSIVE BigMulSmall(_, _, _)
BigMulSmall(p, factor, carry) ==
    IF p = <<>> THEN BigOf(carry)
    ELSE LET digit == p[Len(p)] * factor + carry
         IN  Append(BigMulSmall(BigFront(p), factor, digit \div Base), digit % Base)

\* <<p \div divisor, p % divisor>>, for divisor <= Base.
RECURSIVE BigDivSmall(_, _)
BigDivSmall(p, divisor) ==
    IF p = <<>> THEN <<<<>>, 0>>
    ELSE LET upper == BigDivSmall(BigFront(p), divisor)
             digit == upper[2] * Base + p[Len(p)]
         IN  <<Append(upper[1], digit \div divisor), digit % divisor>>

\* p * 2^k and p \div 2^k.
BigShiftLeft(p, k) ==
    BigMulSmall(p, 2^(k % LimbBits), 0) \o [i \in 1..(k \div LimbBits) |-> 0]
BigShiftRight(p, k) ==
    BigDivSmall(SubSeq(p, 1, Len(p) - (k \div LimbBits)), 2^(k % LimbBits))[1]

\* A binary64 value other than NaN and the infinities is <<s, m, e>> = s * m * 2^e
\* with s the sign (0 for zero) and m a natural number of exactly Precision bits.
F64Zero == <<0, <<>>, 0>>

\* A significand that rounding up has carried to Precision + 1 bits loses its last,
\* a zero.
F64Carried(s, m, e) ==
    IF BigBits(m) > Precision THEN <<s, BigStrip(BigShiftRight(m, 1)), e + 1>>
    ELSE <<s, m, e>>
F64RoundKept(s, kept, up, e) ==
    IF up THEN F64Carried(s, BigStrip(BigAdd(kept, BigPad(<<1>>, Len(kept)), 0)), e)
    ELSE <<s, kept, e>>

\* sig = (2 * kept + half) * 2^(drop - 1) + rest: sig / 2^drop rounds up to kept + 1
\* when half = 1 and either something lies below the half (rest > 0, or the value is
\* inexact) or kept is odd.  halved is <<kept, half>>, cut <<sig \div 2^(drop - 1),
\* what that division left>>, and low the limbs of sig it did not reach.
F64RoundHalved(s, halved, below, e) ==
    F64RoundKept(s, BigStrip(halved[1]),
                 halved[2] = 1 /\ (below \/ halved[1][Len(halved[1])] % 2 = 1), e)
F64RoundCut(s, cut, low, e, inexact) ==
    F64RoundHalved(s, BigDivSmall(cut[1], 2),
                   inexact \/ cut[2] # 0 \/ \E i \in 1..Len(low) : low[i] # 0, e)
F64RoundDrop(s, sig, drop, e, inexact) ==
    IF drop <= 0 THEN <<s, BigStrip(BigShiftLeft(sig, 0 - drop)), e + drop>>
    ELSE F64RoundCut(s,
             BigDivSmall(SubSeq(sig, 1, Len(sig) - (drop - 1) \div LimbBits),
                         2^((drop - 1) % LimbBits)),
             SubSeq(sig, Len(sig) - (drop - 1) \div LimbBits + 1, Len(sig)),
             e + drop, inexact)
F64RoundSig(s, sig, e, inexact) ==
    IF sig = <<>> THEN F64Zero
    ELSE F64RoundDrop(s, sig, BigBits(sig) - Precision, e, inexact)

\* s * m * 2^e (plus a nonzero fraction of 2^e when inexact) rounded to the nearest
\* binary64, ties to even.
F64Round(s, m, e, inexact) == F64RoundSig(s, BigStrip(m), e, inexact)

\* s * m * 2^e / d rounded to binary64, for a natural number d in 1 .. Base.
F64Divided(s, quot, e) == F64Round(s, quot[1], e, quot[2] # 0)
F64Quotient(s, m, e, d) ==
    F64Divided(s, BigDivSmall(BigShiftLeft(m, Precision + 2 + BitLen(d)), d),
               e - (Precision + 2 + BitLen(d)))

\* The binary64 nearest to n/d (what float("n/d") and np.loadtxt give).
F64OfRational(n, d) ==
    IF n = 0 THEN F64Zero
    ELSE IF d = 1 THEN F64Round(Sign(n), BigOf(Abs(n)), 0, FALSE)
    ELSE F64Quotient(Sign(n), BigOf(Abs(n)), 0, d)

F64DivInt(x, d) == IF x[1] = 0 \/ d = 1 THEN x ELSE F64Quotient(x[1], x[2], x[3], d)

F64Neg(x) == <<0 - x[1], x[2], x[3]>>

\* x + y, correctly rounded: the significands aligned on the lower exponent, added
\* or subtracted exactly, and the result rounded.
F64AddPadded(sx, xb, sy, yb, low) ==
    IF sx # sy /\ xb = yb THEN F64Zero
    ELSE F64Round(IF sx = sy \/ BigLt(yb, xb) THEN sx ELSE sy,
                  IF sx = sy THEN BigAdd(xb, yb, 0)
                  ELSE IF BigLt(xb, yb) THEN BigSub(yb, xb, 0)
                  ELSE BigSub(xb, yb, 0),
                  low, FALSE)
F64AddAligned(sx, xs, sy, ys, low) ==
    F64AddPadded(sx, BigPad(xs, IF Len(xs) > Len(ys) THEN Len(xs) ELSE Len(ys)),
                 sy, BigPad(ys, IF Len(xs) > Len(ys) THEN Len(xs) ELSE Len(ys)), low)
F64Add(x, y) ==
    IF x[1] = 0 THEN y
    ELSE IF y[1] = 0 THEN x
    ELSE F64AddAligned(x[1], BigShiftLeft(x[2], IF x[3] < y[3] THEN 0 ELSE x[3] - y[3]),
                       y[1], BigShiftLeft(y[2], IF x[3] < y[3] THEN y[3] - x[3] ELSE 0),
                       IF x[3] < y[3] THEN x[3] ELSE y[3])

F64Lt(x, y) == F64Add(x, F64Neg(y))[1] < 0

\* A binary64 value as a number of the model, <<s, e, l1, l2, l3, l4>>, and the
\* binary64 value of a finite number of the model.
F64Raw(x) == <<x[1], x[3]>> \o x[2]
F64Of(x) ==
    IF Len(x) > 3 THEN <<x[1], SubSeq(x, 3, Len(x)), x[2]>>
    ELSE F64OfRational(x[1], x[2])

\* acc + s[1] + s[2] + ..., added in this order, every sum rounded.
RECURSIVE F64Sum(_, _)
F64Sum(acc, s) == IF s = <<>> THEN acc ELSE F64Sum(F64Add(acc, F64Of(Head(s))), Tail(s))

\* p + q, p - q (for p >= q) and p < q, for p and q of any lengths.
BigLonger(p, q) == IF Len(p) > Len(q) THEN Len(p) ELSE Len(q)
BigPlus(p, q) == BigAdd(BigPad(p, BigLonger(p, q)), BigPad(q, BigLonger(p, q)), 0)
BigMinus(p, q) == BigSub(BigPad(p, BigLonger(p, q)), BigPad(q, BigLonger(p, q)), 0)
BigLess(p, q) == BigLt(BigPad(p, BigLonger(p, q)), BigPad(q, BigLonger(p, q)))

\* p * q.
RECURSIVE BigMul(_, _)
BigMul(p, q) ==
    IF q = <<>> THEN <<>>
    ELSE BigPlus(Append(BigMul(p, BigFront(q)), 0), BigMulSmall(p, q[Len(q)], 0))

\* x * y, correctly rounded.
F64Mul(x, y) ==
    IF x[1] = 0 \/ y[1] = 0 THEN F64Zero
    ELSE F64Round(x[1] * y[1], BigMul(x[2], y[2]), x[3] + y[3], FALSE)
F64Square(x) == F64Mul(x, x)

\* The square root limb by limb, as in long division: with root the root found so far
\* and rem what is left of the radicand down to the next two limbs, the next limb of
\* the root is the largest q with (2 * root * Base + q) * q <= rem.  twice is 2 * root.
BigRootTrial(twice, q) == BigMulSmall(Append(twice, q), q, 0)
RECURSIVE BigRootDigit(_, _, _)
BigRootDigit(twice, rem, q) ==
    IF BigLess(rem, BigRootTrial(twice, q)) THEN BigRootDigit(twice, rem, q - 1) ELSE q
\* rem \div (2 * root[1] * Base^Len(root)), at most Base - 1: never below the next limb.
BigRootGuess(quot) == IF quot = <<>> THEN 0 ELSE IF Len(quot) = 1 THEN quot[1] ELSE Base - 1
BigRootNext(root, rem, q) ==
    <<Append(root, q), BigStrip(BigMinus(rem, BigRootTrial(BigMulSmall(root, 2, 0), q)))>>
BigRootStep(root, rem) ==
    BigRootNext(root, rem,
        IF root = <<>> THEN IntRoot(rem[1] * Base + rem[2], 0, Base)
        ELSE BigRootDigit(BigMulSmall(root, 2, 0), rem,
                 BigRootGuess(BigStrip(BigDivSmall(
                     BigDivSmall(SubSeq(rem, 1, Len(rem) - Len(root)), 2)[1], root[1])[1]))))
BigRootOn(found, high, low) == BigRootStep(found[1], found[2] \o <<high, low>>)

\* <<r, p - r * r>> with r the integer square root of p, for p of an even number of
\* limbs, the first at least Base / 4.
RECURSIVE BigRoot(_)
BigRoot(p) ==
    IF p = <<>> THEN << <<>>, <<>> >>
    ELSE BigRootOn(BigRoot(SubSeq(p, 1, Len(p) - 2)), p[Len(p) - 1], p[Len(p)])

\* The square root of x >= 0, correctly rounded: the significand is shifted to fill
\* 2 * RootLimbs limbs but one or two bits, leaving an even exponent, and the root of
\* that integer, of more than Precision + 2 bits, is rounded.
RootLimbs == (Precision + 2) \div LimbBits + 1
F64Rooted(found, e) == F64Round(1, found[1], e, found[2] # <<>>)
F64RootShifted(m, e, k) ==
    F64Rooted(BigRoot(BigPad(BigStrip(BigShiftLeft(m, k)), 2 * RootLimbs)), (e - k) \div 2)
F64Sqrt(x) ==
    IF x[1] = 0 THEN F64Zero
    ELSE F64RootShifted(x[2], x[3], 2 * RootLimbs * LimbBits - Precision - 1 + (x[3] % 2))

\* acc + xs[1] + xs[2] + ... on binary64 values, added in this order.
RECURSIVE F64Total(_, _)
F64Total(acc, xs) == IF xs = <<>> THEN acc ELSE F64Total(F64Add(acc, Head(xs)), Tail(xs))

--------------------------------------------------------------------------
(* Shapes *)

IsRectangular(t) == \A i \in 1..Len(t) : Len(t[i]) = Len(t[1])
NRows(t) == Len(t)
NCols(t) == Len(t[1])
Column(t, c) == [i \in 1..Len(t) |-> t[i][c]]
\* A table with an ndarray form of at least one row and one column.
IsArray2D(t) == Len(t) >= 1 /\ IsRectangular(t) /\ Len(t[1]) >= 1

Ok(n, v) == [kind |-> "ok", ndim |-> n, value |-> v]
Raised(e) == [kind |-> e, ndim |-> 0, value |-> <<>>]
NoResult == [kind |-> "none", ndim |-> 0, value |-> <<>>]
NoRun == [data |-> <<>>, op |-> "none", result |-> NoResult]


--------------------------------------------------------------------------
(* numpy reductions, as models.py calls them *)

\* The largest / smallest element of a non-empty sequence; NaN if any element is NaN.
RECURSIVE MaxSeq(_)
MaxSeq(s) ==
    IF Len(s) = 1 THEN Head(s)
    ELSE LET m == MaxSeq(Tail(s))
         IN  IF IsNaN(Head(s)) \/ IsNaN(m) THEN NaN
             ELSE IF Lt(m, Head(s)) THEN Head(s) ELSE m

RECURSIVE MinSeq(_)
MinSeq(s) ==
    IF Len(s) = 1 THEN Head(s)
    ELSE LET m == MinSeq(Tail(s))
         IN  IF IsNaN(Head(s)) \/ IsNaN(m) THEN NaN
             ELSE IF Lt(Head(s), m) THEN Head(s) ELSE m

\* np.nanmax of one row: the largest element that is not NaN; NaN when there is none.
RECURSIVE NanMaxSeq(_)
NanMaxSeq(s) ==
    IF s = <<>> THEN NaN
    ELSE LET m == NanMaxSeq(Tail(s))
         IN  IF IsNaN(Head(s)) THEN m
             ELSE IF IsNaN(m) THEN Head(s)
             ELSE IF Lt(m, Head(s)) THEN Head(s) ELSE m

\* The mean of one column: the sum of its entries, added in row order, divided by
\* their number.  A column of integers has an exact sum and one rounding, that of the
\* quotient, so its mean is the rational; NaN and the infinities propagate; any other
\* column is summed and divided in binary64, and its mean is written as the rational
\* it is the nearest binary64 to, when it is, and as the 6-tuple otherwise.
np_mean_number(mean, exact) ==
    IF mean = F64Zero THEN Zero
    ELSE IF ~IsNaN(exact) /\ mean = F64Of(exact) THEN exact
    ELSE F64Raw(mean)
np_mean_column(col) ==
    IF \/ \E k \in 1..Len(col) : ~IsFinite(col[k])
       \/ \A k \in 1..Len(col) : col[k][2] = 1
    THEN Div(SumSeq(col), Num(Len(col)))
    ELSE np_mean_number(F64DivInt(F64Sum(F64Of(col[1]), Tail(col)), Len(col)),
                        Div(SumSeq(col), Num(Len(col))))

\* np.mean(data, axis=0).  No rows: NaN (numpy only warns).  Ragged rows have no
\* array form: ValueError.  Rows without columns: the empty series.
np_mean_axis0(t) ==
    IF t = <<>> THEN Ok(0, <<NaN>>)
    ELSE IF ~IsRectangular(t) THEN Raised("ValueError")
    ELSE Ok(1, [c \in 1..NCols(t) |-> np_mean_column(Column(t, c))])

\* np.max(data, axis=0).  No rows: ValueError (zero-size reduction without identity).
np_max_axis0(t) ==
    IF t = <<>> THEN Raised("ValueError")
    ELSE IF ~IsRectangular(t) THEN Raised("ValueError")
    ELSE Ok(1, [c \in 1..NCols(t) |-> MaxSeq(Column(t, c))])

\* np.min(data, axis=0).
np_min_axis0(t) ==
    IF t = <<>> THEN Raised("ValueError")
    ELSE IF ~IsRectangular(t) THEN Raised("ValueError")
    ELSE Ok(1, [c \in 1..NCols(t) |-> MinSeq(Column(t, c))])

\* np.any(data < 0) on an array.
np_any_negative(t) == \E i \in 1..Len(t) : \E j \in 1..Len(t[i]) : Lt(t[i][j], Zero)

\* np.nanmax(data, axis=1): one maximum per row.  The array without rows has one
\* dimension and no axis 1: AxisError.  Rows without columns: ValueError (zero-size
\* reduction without identity).
np_nanmax_axis1(t) ==
    IF t = <<>> THEN Raised("AxisError")
    ELSE IF Len(t[1]) = 0 THEN Raised("ValueError")
    ELSE Ok(1, [i \in 1..Len(t) |-> NanMaxSeq(t[i])])

\* np.max(data, axis=1), with the same refusals.
np_max_axis1(t) ==
    IF t = <<>> THEN Raised("AxisError")
    ELSE IF Len(t[1]) = 0 THEN Raised("ValueError")
    ELSE Ok(1, [i \in 1..Len(t) |-> MaxSeq(t[i])])

--------------------------------------------------------------------------
(* models.py *)

daily_mean(t) == np_mean_axis0(t)

daily_max(t) == np_max_axis0(t)

daily_min(t) == np_min_axis0(t)

\* data / max_data[:, np.newaxis]: every entry divided by the maximum of its row.
DivideRows(t, m) == [i \in 1..Len(t) |-> [j \in 1..Len(t[i]) |-> Div(t[i][j], m[i])]]
\* normalised[np.isnan(normalised)] = 0
NanToZero(t) ==
    [i \in 1..Len(t) |-> [j \in 1..Len(t[i]) |-> IF IsNaN(t[i][j]) THEN Zero ELSE t[i][j]]]
\* normalised[normalised < 0] = 0
NegativeToZero(t) ==
    [i \in 1..Len(t) |-> [j \in 1..Len(t[i]) |-> IF Lt(t[i][j], Zero) THEN Zero ELSE t[i][j]]]

\* Lines 62-67 with the row maxima (or the exception of their reduction) given.
\* fix_nan and fix_negative say whether lines 65 and 66 are applied.
NormaliseBy(t, max_data, fix_nan, fix_negative) ==
    IF max_data.kind # "ok" THEN max_data
    ELSE LET quotients == DivideRows(t, max_data.value)
             no_nan == IF fix_nan THEN NanToZero(quotients) ELSE quotients
         IN  Ok(2, IF fix_negative THEN NegativeToZero(no_nan) ELSE no_nan)

\* Mutant: the NaN quotients are left in the result.
patient_normalise_keeps_nan(t) ==
    IF ~IsRectangular(t) THEN Raised("TypeError")
    ELSE IF np_any_negative(t) THEN Raised("ValueError")
    ELSE NormaliseBy(t, np_nanmax_axis1(t), FALSE, TRUE)

\* Mutant: the negative check is gone; negative quotients are rounded to 0.
patient_normalise_unchecked(t) ==
    IF ~IsRectangular(t) THEN Raised("TypeError")
    ELSE NormaliseBy(t, np_nanmax_axis1(t), TRUE, TRUE)

\* Mutant: np.max in place of np.nanmax, so a NaN entry makes its row's maximum NaN.
patient_normalise_plain_max(t) ==
    IF ~IsRectangular(t) THEN Raised("TypeError")
    ELSE IF np_any_negative(t) THEN Raised("ValueError")
    ELSE NormaliseBy(t, np_max_axis1(t), TRUE, TRUE)

\* Mutant: every row divided by the maximum of the whole table (axis=1 dropped).
patient_normalise_table_max(t) ==
    IF ~IsRectangular(t) THEN Raised("TypeError")
    ELSE IF np_any_negative(t) THEN Raised("ValueError")
    ELSE LET m == np_nanmax_axis1(t)
         IN  NormaliseBy(t, IF m.kind # "ok" THEN m
                            ELSE Ok(1, [i \in 1..Len(t) |-> NanMaxSeq(m.value)]),
                         TRUE, TRUE)

\* patient_normalise.  A ragged argument is a list of lists, and data < 0 on a list
\* is a TypeError; every other table is an array.
patient_normalise(t) ==
    IF ~IsRectangular(t) THEN Raised("TypeError")
    ELSE IF np_any_negative(t) THEN Raised("ValueError")
    ELSE NormaliseBy(t, np_nanmax_axis1(t), TRUE, TRUE)

\* np.stack(list(means_by_day)): the series as the rows of one matrix.  No series, or
\* series of different shapes: ValueError.
np_stack_truncating(means) ==
    IF Len(means) = 0 THEN Raised("ValueError")
    ELSE LET n == CHOOSE n \in 0..MaxCells + 1 :
                     /\ \E k \in 1..Len(means) : Len(means[k].value) = n
                     /\ \A k \in 1..Len(means) : Len(means[k].value) >= n
         IN  Ok(means[1].ndim + 1, [k \in 1..Len(means) |-> SubSeq(means[k].value, 1, n)])

np_stack(means) ==
    IF Len(means) = 0 THEN Raised("ValueError")
    ELSE IF \E k \in 1..Len(means) :
                \/ means[k].ndim # means[1].ndim
                \/ Len(means[k].value) # Len(means[1].value)
         THEN Raised("ValueError")
    ELSE Ok(means[1].ndim + 1, [k \in 1..Len(means) |-> means[k].value])

\* np.std of one column, as numpy's _var computes it in binary64: the sum of the
\* entries, added in row order, divided by their number; every entry minus that
\* mean; the differences squared; their sum divided by the number of entries; the
\* square root; every operation rounded.
np_std_squares(xs, arrmean) ==
    [k \in 1..Len(xs) |-> F64Square(F64Add(xs[k], F64Neg(arrmean)))]
np_std_values(xs) ==
    F64Sqrt(F64DivInt(
        F64Total(F64Zero,
                 np_std_squares(xs, F64DivInt(F64Total(F64Zero, xs), Len(xs)))),
        Len(xs)))

\* A binary fraction n/d of few bits.  On a column of such numbers whose mean is one
\* too, the sums, the mean, the differences and their squares are all binary64
\* values: nothing is rounded before the last division, which rounds the exact
\* variance, and the square root rounds once more.
IsShortBinary(x) == Len(x) = 2 /\ x[2] \in {1, 2, 4, 8} /\ Abs(x[1]) < 2^7
np_std_unrounded(col) ==
    /\ \A k \in 1..Len(col) : IsShortBinary(col[k])
    /\ IsShortBinary(Div(SumSeq(col), Num(Len(col))))

\* The result as a number of the model: the rational root of the exact variance when
\* there is one and the result is the binary64 nearest to it, else the 6-tuple.
np_std_number(std, exact) ==
    IF std = F64Zero THEN Zero
    ELSE IF Len(exact) = 2 /\ IsFinite(exact) /\ std = F64Of(exact) THEN exact
    ELSE F64Raw(std)
np_std_rooted(variance) == np_std_number(F64Sqrt(F64Of(variance)), Sqrt(variance))
\* NaN or an infinity among the entries gives NaN.
np_std_column(col) ==
    IF \E k \in 1..Len(col) : Len(col[k]) = 2 /\ ~IsFinite(col[k]) THEN NaN
    ELSE IF np_std_unrounded(col) THEN np_std_rooted(PopulationVarianceOf(col))
    ELSE np_std_number(np_std_values([k \in 1..Len(col) |-> F64Of(col[k])]), NaN)

\* np.std(matrix, axis=0) of a matrix of at least one row.
np_std_axis0(m) == [c \in 1..Len(m[1]) |-> np_std_column(Column(m, c))]

\* The first outcome of a sequence of outcomes that is an exception (there is one).
FirstRaised(outs) ==
    outs[CHOOSE k \in 1..Len(outs) :
            /\ outs[k].kind # "ok"
            /\ \A j \in 1..(k - 1) : outs[j].kind = "ok"]

\* All rows of all tables of a collection, in order.
RECURSIVE Pooled(_)
Pooled(coll) == IF coll = <<>> THEN <<>> ELSE Head(coll) \o Pooled(Tail(coll))

\* Mutant: the rows of all datasets pooled into one matrix, in place of one mean per
\* dataset.
compute_standard_deviation_by_day_pooled(coll) ==
    IF Len(coll) = 0 \/ \E k \in 1..Len(coll) : Len(coll[k][1]) # Len(coll[1][1])
    THEN Raised("ValueError")
    ELSE Ok(1, np_std_axis0(Pooled(coll)))

\* compute_standard_deviation_by_day: np.std on the stacked matrix (or the exception
\* of the stacking), np.stack on the daily means (or the first exception among them),
\* daily_mean on every table of the collection.
std_of_matrix(means_by_day_matrix) ==
    IF means_by_day_matrix.kind # "ok" THEN means_by_day_matrix
    ELSE Ok(means_by_day_matrix.ndim - 1, np_std_axis0(means_by_day_matrix.value))
std_of_means(means_by_day) ==
    IF \E k \in 1..Len(means_by_day) : means_by_day[k].kind # "ok"
    THEN FirstRaised(means_by_day)
    ELSE std_of_matrix(np_stack(means_by_day))
compute_standard_deviation_by_day(coll) ==
    std_of_means([k \in 1..Len(coll) |-> daily_mean(coll[k])])

\* A data source: the collection of tables it holds and the log of the methods
\* called on it.  Its one method returns the collection and the source with the call
\* logged.
DataSource(coll) == [tables |-> coll, log |-> <<>>]
load_inflamation_data(data_source) ==
    [returned |-> data_source.tables,
     source   |-> [data_source EXCEPT !.log = Append(@, "load_inflamation_data")]]

\* Mutant: the data source is asked twice, the second answer used.
analyse_data_loads_twice(data_source) ==
    LET first  == load_inflamation_data(data_source)
        second == load_inflamation_data(first.source)
    IN  [calls  |-> second.source.log,
         result |-> compute_standard_deviation_by_day(second.returned)]

\* analyse_data: the value returned (or the exception, which nothing catches) and the
\* calls the data source has logged.
analyse_data(data_source) ==
    LET loaded == load_inflamation_data(data_source)
    IN  [calls  |-> loaded.source.log,
         result |-> compute_standard_deviation_by_day(loaded.returned)]

\* Mutant: the square root of the variance is taken.
standard_deviation_single_rooted(t) ==
    LET mean == daily_mean(t).value
    IN  Ok(1, [label \in {"standard deviation"} |->
                 [c \in 1..NCols(t) |->
                    Sqrt(Div(SumSeq([i \in 1..NRows(t) |->
                                 Mul(Sub(t[i][c], mean[c]), Sub(t[i][c], mean[c]))]),
                             Num(NRows(t))))]])

\* standard_deviation_single on a 2D array: per column, the sum over the rows of the
\* squared deviation from the column's mean, divided by the number of rows.
standard_deviation_single(t) ==
    LET mean == daily_mean(t).value
    IN  Ok(1, [label \in {"standard deviation"} |->
                 [c \in 1..NCols(t) |->
                    Div(SumSeq([i \in 1..NRows(t) |->
                            Mul(Sub(t[i][c], mean[c]), Sub(t[i][c], mean[c]))]),
                        Num(NRows(t)))]])

--------------------------------------------------------------------------
(* Inputs *)

\* The measurements of a table: integers and NaN.  The tables of the daily
\* statistics also hold the tenths 0.1, 0.2, ..., which binary64 does not hold exactly.
Values == {Num(i) : i \in (0 - 1)..MaxVal} \cup {NaN}
Tenths == {Norm(i, 10) : i \in 1..MaxVal}
DayValues == {Num(i) : i \in 0..MaxVal}

ShapesWithin(cells) ==
    {s \in (1..cells) \X (1..cells) : s[1] * s[2] <= cells}
TablesOfShape(r, c, V) == [1..r -> [1..c -> V]]

\* The 2D arrays of at most MaxCells cells.
RectTables == UNION {TablesOfShape(s[1], s[2], Values) : s \in ShapesWithin(MaxCells)}

\* The tables that are no such array: no rows, rows without columns, ragged rows.
\* Their entries do not matter; entry j of a row is j mod (MaxVal + 1).
IllShaped ==
    LET lens == UNION {[1..n -> 0..MaxCells] : n \in 1..MaxCells}
        bad  == {l \in lens :
                    /\ SumSeq([i \in 1..Len(l) |-> Num(l[i])])[1] <= MaxCells
                    /\ \/ l[1] = 0
                       \/ \E i \in 1..Len(l) : l[i] # l[1]}
    IN  {<<>>} \cup
        {[i \in 1..Len(l) |-> [j \in 1..l[i] |-> Num(j % (MaxVal + 1))]] : l \in bad}

\* The scenario table [[1, 2], [3, 4]].
ScenarioTable == << <<Num(1), Num(2)>>, <<Num(3), Num(4)>> >>

AllTables == RectTables \cup IllShaped \cup {ScenarioTable}

\* The 2D arrays of at most `cells` cells whose rows are all the same row of
\* integers, NaN and tenths.
RepeatedRowTables(cells) ==
    UNION {{[i \in 1..s[1] |-> row] : row \in [1..s[2] -> Values \cup Tenths]}
              : s \in ShapesWithin(cells)}

\* The arguments of the daily statistics.
DailyTables(cells) == AllTables \cup RepeatedRowTables(cells)

\* The collections of 2D arrays of non-negative measurements with at most `cells`
\* cells in all (the empty collection among them).
RECURSIVE CollectionsWithin(_)
CollectionsWithin(cells) ==
    {<<>>} \cup
    UNION { {<<t>> \o rest : t \in TablesOfShape(s[1], s[2], DayValues),
                             rest \in CollectionsWithin(cells - s[1] * s[2])}
            : s \in ShapesWithin(cells) }

\* The scenario of two one-row datasets, [[1, 2]] and [[3, 4]].
ScenarioTwoDatasets == << << <<Num(1), Num(2)>> >>, << <<Num(3), Num(4)>> >> >>

Collections == CollectionsWithin(MaxCells) \cup {ScenarioTwoDatasets}

--------------------------------------------------------------------------
(* One run of an operation on an input *)

TypeOK ==
    /\ op \in {"none", "daily_mean", "daily_max", "daily_min", "patient_normalise",
               "standard_deviation_single", "compute_standard_deviation_by_day",
               "analyse_data"}
    /\ result.kind \in {"none", "ok", "ValueError", "AxisError", "TypeError"}

Start(inputs) ==
    /\ data \in inputs
    /\ given = data
    /\ op = "none"
    /\ result = NoResult
    /\ calls = <<>>
    /\ prev = NoRun

Init == Start(AllTables)

PatientNormalise ==
    /\ op = "none"
    /\ op' = "patient_normalise"
    /\ result' = patient_normalise(data)
    /\ UNCHANGED <<data, given, calls, prev>>

\* standard_deviation_single is described for non-empty rectangular tables only.
StandardDeviationSingle ==
    /\ op = "none"
    /\ IsArray2D(data)
    /\ op' = "standard_deviation_single"
    /\ result' = standard_deviation_single(data)
    /\ UNCHANGED <<data, given, calls, prev>>

Next ==
    \/ PatientNormalise
    \/ StandardDeviationSingle

Spec == Init /\ [][Next]_vars

--------------------------------------------------------------------------
(* One run of a daily statistic on a table *)

InitDaily == Start(DailyTables(MaxCells))

DailyMean ==
    /\ op = "none"
    /\ op' = "daily_mean"
    /\ result' = daily_mean(data)
    /\ UNCHANGED <<data, given, calls, prev>>

DailyMax ==
    /\ op = "none"
    /\ op' = "daily_max"
    /\ result' = daily_max(data)
    /\ UNCHANGED <<data, given, calls, prev>>

DailyMin ==
    /\ op = "none"
    /\ op' = "daily_min"
    /\ result' = daily_min(data)
    /\ UNCHANGED <<data, given, calls, prev>>

NextDaily ==
    \/ DailyMean
    \/ DailyMax
    \/ DailyMin

SpecDaily == InitDaily /\ [][NextDaily]_vars

--------------------------------------------------------------------------
(* Two runs of patient_normalise on tables that differ in one row *)

InitTwoRuns == Start({t \in RectTables : Len(t) >= 2})

\* The caller builds a second table from the first by replacing row j.
ReplaceRow ==
    /\ op = "patient_normalise"
    /\ prev = NoRun
    /\ \E j \in 1..Len(data) : \E r \in [1..NCols(data) -> Values] :
          /\ r # data[j]
          /\ data' = [data EXCEPT ![j] = r]
    /\ given' = data'
    /\ prev' = [data |-> data, op |-> op, result |-> result]
    /\ op' = "none"
    /\ result' = NoResult
    /\ UNCHANGED calls

NextTwoRuns ==
    \/ PatientNormalise
    \/ ReplaceRow

SpecTwoRuns == InitTwoRuns /\ [][NextTwoRuns]_vars

--------------------------------------------------------------------------
(* The standard deviation by day of a collection of datasets *)

InitByDay == Start(Collections)

ComputeStandardDeviationByDay ==
    /\ op = "none"
    /\ prev = NoRun
    /\ op' = "compute_standard_deviation_by_day"
    /\ result' = compute_standard_deviation_by_day(data)
    /\ UNCHANGED <<data, given, calls, prev>>

Analysed(run) ==
    /\ calls' = run.calls
    /\ result' = run.result
AnalyseData ==
    /\ op = "none"
    /\ Analysed(analyse_data(DataSource(data)))
    /\ op' = "analyse_data"
    /\ UNCHANGED <<data, given, prev>>

\* After a run on the collection, direct or through analyse_data, the caller analyses
\* a data source holding the same collection.
AnalyseAgain ==
    /\ op \in {"compute_standard_deviation_by_day", "analyse_data"}
    /\ prev = NoRun
    /\ prev' = [data |-> data, op |-> op, result |-> result]
    /\ op' = "none"
    /\ result' = NoResult
    /\ calls' = <<>>
    /\ UNCHANGED <<data, given>>

NextByDay ==
    \/ ComputeStandardDeviationByDay
    \/ AnalyseData
    \/ AnalyseAgain

SpecByDay == InitByDay /\ [][NextByDay]_vars

--------------------------------------------------------------------------
(* Properties *)

Cells(t) == UNION {{<<i, j>> : j \in 1..Len(t[i])} : i \in 1..Len(t)}
HasNaN(t) == \E p \in Cells(t) : IsNaN(t[p[1]][p[2]])
HasNegative(t) == \E p \in Cells(t) : Lt(t[p[1]][p[2]], Zero)
RowHasNegative(r) == \E j \in 1..Len(r) : Lt(r[j], Zero)
DailyOps == {"daily_mean", "daily_max", "daily_min"}

\* The outcome of the daily statistic f on the table of this state: the result the
\* run produced when the run was f, else what f returns on the same table.
Daily(f) ==
    IF op = f THEN result
    ELSE IF f = "daily_mean" THEN daily_mean(data)
    ELSE IF f = "daily_max" THEN daily_max(data)
    ELSE daily_min(data)

\* x <= y on the values of the model: false when either is NaN, and the order of
\* the binary64 values otherwise.
NumLe(x, y) ==
    IF (Len(x) = 2 /\ ~IsFinite(x)) \/ (Len(y) = 2 /\ ~IsFinite(y)) THEN Le(x, y)
    ELSE ~F64Lt(F64Of(y), F64Of(x))

\* C1 as stated: on a rectangular table with at least one row and one column, every
\* column's minimum is at most its mean and its mean at most its maximum.  It is
\* stated here on the tables of numbers only (a NaN entry makes all three statistics
\* of its column NaN, and NaN <= NaN is false), so that what violates it is a table
\* of numbers.
Orig_C1_MinMeanMax ==
    (op \in DailyOps /\ IsArray2D(data) /\ ~HasNaN(data)) =>
        /\ \A f \in DailyOps : Daily(f).kind = "ok" /\ Len(Daily(f).value) = NCols(data)
        /\ \A c \in 1..NCols(data) :
              /\ NumLe(Daily("daily_min").value[c], Daily("daily_mean").value[c])
              /\ NumLe(Daily("daily_mean").value[c], Daily("daily_max").value[c])

UnitInterval ==
    /\ result.kind = "ok"
    /\ Len(result.value) = Len(data)
    /\ \A i \in 1..Len(data) :
          /\ Len(result.value[i]) = Len(data[i])
          /\ \A j \in 1..Len(data[i]) :
                Le(Zero, result.value[i][j]) /\ Le(result.value[i][j], One)

\* C2 as stated: on every table (one or more rows of equal length) without negative values
\* patient_normalise returns a table of the same shape whose every value v has
\* 0 <= v <= 1.
Orig_C2_UnitIntervalAnyTable ==
    (op = "patient_normalise" /\ Len(data) >= 1 /\ IsRectangular(data)
        /\ ~HasNegative(data)) => UnitInterval

\* C2 amended: the same on every table of at least one row and one column.
Inv_C2_UnitInterval ==
    (op = "patient_normalise" /\ IsArray2D(data) /\ ~HasNegative(data)) => UnitInterval

\* A table without negatives but with a NaN entry was normalised, and some value of
\* the result lies strictly inside the interval.
Wit_C2_FractionAndNaN ==
    /\ op = "patient_normalise"
    /\ ~HasNegative(data)
    /\ HasNaN(data)
    /\ result.kind = "ok"
    /\ \E p \in Cells(data) : result.value[p[1]][p[2]] = <<1, 2>>

\* C3: on a table (rows of equal length) with a negative value anywhere
\* patient_normalise raises ValueError, returns no table at all, and leaves its
\* argument as the caller built it.
Inv_C3_NegativeRaises ==
    (op = "patient_normalise" /\ IsRectangular(data) /\ HasNegative(data)) =>
        /\ result = Raised("ValueError")
        /\ data = given

\* The call raised on a table whose first row holds no negative value and could have
\* been normalised alone.
Wit_C3_CleanRowNotReturned ==
    /\ op = "patient_normalise"
    /\ Len(data) >= 2
    /\ ~RowHasNegative(data[1])
    /\ \E j \in 1..Len(data[1]) : Lt(Zero, data[1][j])
    /\ RowHasNegative(data[2])
    /\ result.kind = "ValueError"

\* m is the maximum of row r ignoring NaN entries.
IsRowMax(r, m) ==
    /\ \E j \in 1..Len(r) : r[j] = m /\ ~IsNaN(m)
    /\ \A j \in 1..Len(r) : IsNaN(r[j]) \/ Le(r[j], m)

QuotientOrZero ==
    /\ result.kind = "ok"
    /\ \A i \in 1..Len(data) : \A j \in 1..Len(data[i]) :
          LET v == result.value[i][j]
              x == data[i][j]
              maxima == {m \in {data[i][k] : k \in 1..Len(data[i])} :
                            IsRowMax(data[i], m)}
              defined == ~IsNaN(x) /\ maxima # {} /\ maxima # {Zero}
          IN  /\ ~IsNaN(v)
              /\ defined => \A m \in maxima : Mul(v, m) = x
              /\ ~defined => v = Zero

\* C4 as stated: on every table (one or more rows of equal length) without negative values
\* patient_normalise returns, for every entry, the entry divided by the NaN-ignoring
\* maximum of its row, and exactly 0 where that quotient is undefined (the maximum is
\* 0 or undefined, or the entry is NaN); no NaN appears in the result.
Orig_C4_QuotientOrZeroAnyTable ==
    (op = "patient_normalise" /\ Len(data) >= 1 /\ IsRectangular(data)
        /\ ~HasNegative(data)) => QuotientOrZero

\* C4 amended: the same on every table of at least one row and one column.
Inv_C4_QuotientOrZero ==
    (op = "patient_normalise" /\ IsArray2D(data) /\ ~HasNegative(data)) => QuotientOrZero

\* A row of zeros came out as a row of zeros, beside a row with a NaN entry whose
\* maximum was taken over the other entries.
Wit_C4_ZeroRowAndNaNRow ==
    /\ op = "patient_normalise"
    /\ data = << <<Zero, Zero>>, <<NaN, Num(2)>> >>
    /\ result = Ok(2, << <<Zero, Zero>>, <<Zero, One>> >>)

\* The population variance of a sequence of numbers: (N * sum x^2 - (sum x)^2) / N^2.
PopulationVariance(s) ==
    LET n == Num(Len(s))
        sumsq == SumSeq([k \in 1..Len(s) |-> Mul(s[k], s[k])])
        total == SumSeq(s)
    IN  Div(Sub(Mul(n, sumsq), Mul(total, total)), Mul(n, n))

ColumnMean(t, c) == Div(SumSeq(Column(t, c)), Num(NRows(t)))

\* The exact means of day c of the tables of a collection, one per table.
DailyMeans(coll, c) == [k \in 1..Len(coll) |-> ColumnMean(coll[k], c)]

SameColumns(coll) ==
    /\ Len(coll) >= 1
    /\ \A k \in 1..Len(coll) : IsArray2D(coll[k]) /\ NCols(coll[k]) = NCols(coll[1])

\* lower^2 <= v <= upper^2 for the rational v >= 0, with lower, upper and v all
\* scaled by b * 2^(0 - low): lower and upper are natural numbers over b * 2^(0 - low).
BigScale(p, k) == IF k > 0 THEN BigStrip(BigShiftLeft(p, k)) ELSE p
BigSquareTimes(p, d, k) == BigScale(BigMulSmall(BigMul(p, p), d, 0), k)
RootBetween(lower, upper, square) ==
    ~BigLess(square, lower) /\ ~BigLess(upper, square)
RootBetweenScaled(lower, upper, v, b, low) ==
    RootBetween(BigSquareTimes(lower, v[2], 2 * low), BigSquareTimes(upper, v[2], 2 * low),
                BigScale(BigMulSmall(BigMulSmall(BigOf(v[1]), b, 0), b, 0), 0 - 2 * low))
RootAround(centre, radius, v, b, low) ==
    RootBetweenScaled(IF BigLess(centre, radius) THEN <<>> ELSE BigMinus(centre, radius),
                      BigPlus(centre, radius), v, b, low)
RootWithinAt(x, v, tol, g, low) ==
    RootAround(BigStrip(BigShiftLeft(BigMulSmall(x[2], tol[2], 0), x[3] - low)),
               BigStrip(BigShiftLeft(BigOf(tol[1]), g - low)), v, tol[2], low)

\* The binary64 value x >= 0 lies within tol * 2^g of the square root of the rational
\* v >= 0 (tol a rational >= 0): (x - tol * 2^g)^2 <= v <= (x + tol * 2^g)^2, decided
\* on natural numbers.
RootWithin(x, v, tol, g) ==
    x[1] >= 0 /\ RootWithinAt(x, v, tol, g, IF x[3] < g THEN x[3] ELSE g)

\* The number x of the model is the binary64 nearest to the square root of v: 0 when v
\* is 0, and otherwise at most half a unit in its last place away from the root.
IsNearestRoot(x, v) ==
    /\ Len(x) = 2 => IsFinite(x)
    /\ IF v = Zero \/ x = Zero THEN v = Zero /\ x = Zero
       ELSE RootWithin(F64Of(x), v, One, F64Of(x)[3] - 1)

\* The number x of the model is the square root of v to within 2^-53, the largest
\* relative error of one rounding to binary64, times the number largest >= 0.
IsRoundedRoot(x, v, largest) ==
    /\ Len(x) = 2 => IsFinite(x)
    /\ RootWithin(F64Of(x), v, largest, 0 - Precision)

StdOfDailyMeansShape ==
    /\ result.kind = "ok"
    /\ result.ndim = 1
    /\ Len(result.value) = NCols(data[1])
    /\ data = ScenarioTwoDatasets => result.value = <<One, One>>

Inv_C6_SingleIsVariance ==
    (op = "standard_deviation_single") =>
        /\ result.kind = "ok"
        /\ DOMAIN result.value = {"standard deviation"}
        /\ Len(result.value["standard deviation"]) = NCols(data)
        /\ \A c \in 1..NCols(data) :
              result.value["standard deviation"][c] = PopulationVariance(Column(data, c))

\* On a column {0, 2} the result is the variance 1; on {-1, 2} it is 9/4, whose root
\* 3/2 is not what is returned.
Wit_C6_VarianceNotRoot ==
    /\ op = "standard_deviation_single"
    /\ data = << <<Num(0), Num(0 - 1)>>, <<Num(2), Num(2)>> >>
    /\ result.value["standard deviation"] = <<One, <<9, 4>>>>

\* The series s holds, for every day, the population standard deviation of the
\* per-table means of that day over the collection coll, to within 2^-53 times the
\* largest of those means.
IsStdOfDailyMeans(s, coll) ==
    /\ Len(s) = NCols(coll[1])
    /\ \A c \in 1..NCols(coll[1]) :
          IsRoundedRoot(s[c], PopulationVariance(DailyMeans(coll, c)),
                        MaxSeq(DailyMeans(coll, c)))

\* C7: analyse_data calls load_inflamation_data on its data source once and nothing
\* else, leaves the collection as the source holds it, and returns the standard
\* deviation by day of that collection: the series of the population standard
\* deviations of the per-table daily means when the tables agree in column count
\* (each to within 2^-53 times the largest of those means), and the ValueError of
\* the stacking step when they do not or there is no table.
\* It is the very value a direct call of compute_standard_deviation_by_day on the
\* collection has returned, and the one an earlier analysis of a source holding the
\* same collection has returned.
Inv_C7_AnalyseDelegates ==
    (op = "analyse_data") =>
        /\ calls = <<"load_inflamation_data">>
        /\ data = given
        /\ SameColumns(data) =>
              /\ result.kind = "ok"
              /\ result.ndim = 1
              /\ IsStdOfDailyMeans(result.value, data)
        /\ ~SameColumns(data) => result = Raised("ValueError")
        /\ (/\ prev.op \in {"compute_standard_deviation_by_day", "analyse_data"}
            /\ prev.data = data) => prev.result = result

\* Two analyses of the scenario's two datasets, [[1, 2]] and [[3, 4]], have both
\* returned [1, 1], each after one call on its data source.
Wit_C7_SecondAnalysis ==
    /\ op = "analyse_data"
    /\ prev.op = "analyse_data"
    /\ data = ScenarioTwoDatasets
    /\ calls = <<"load_inflamation_data">>
    /\ prev.result = Ok(1, <<One, One>>)
    /\ result = Ok(1, <<One, One>>)

IsEmptyTable(t) == Len(t) = 0 \/ (IsRectangular(t) /\ Len(t[1]) = 0)
IsRagged(t) == ~IsRectangular(t)

\* C8 as stated: on an empty table (no rows, or rows without columns) or a ragged one
\* the three daily statistics end in an error and return no series.
Orig_C8_EmptyOrRaggedRaises ==
    (op \in DailyOps /\ (IsEmptyTable(data) \/ IsRagged(data))) => result.kind # "ok"

MixedColumns(coll) ==
    /\ \A k \in 1..Len(coll) : IsArray2D(coll[k])
    /\ \E j, k \in 1..Len(coll) : NCols(coll[j]) # NCols(coll[k])

\* C9: when two tables of the collection differ in column count,
\* compute_standard_deviation_by_day raises at the stacking step and returns no
\* series, and analyse_data ends in the same exception.
Inv_C9_MixedColumnsRaise ==
    (op \in {"compute_standard_deviation_by_day", "analyse_data"} /\ MixedColumns(data)) =>
        result = Raised("ValueError")

\* analyse_data has ended in the exception on a collection of a two-column and a
\* one-column table.
Wit_C9_AnalyseRaises ==
    /\ op = "analyse_data"
    /\ Len(data) = 2
    /\ NCols(data[1]) = 2
    /\ NCols(data[2]) = 1
    /\ result.kind = "ValueError"

\* What a run yields for row i: the normalised row, or the exception.
RowOutcome(res, i) == IF res.kind = "ok" THEN <<"ok", res.value[i]>> ELSE <<res.kind>>

BothRuns == prev.op = "patient_normalise" /\ op = "patient_normalise"

\* C10 as stated: two tables of the same shape with row i identical give the same
\* outcome for row i, whatever their other rows hold.
Orig_C10_RowIndependence ==
    BothRuns =>
        \A i \in 1..Len(data) :
            prev.data[i] = data[i] => RowOutcome(prev.result, i) = RowOutcome(result, i)

\* C10 amended: the same, provided the other rows of both tables hold no negative
\* value.
Inv_C10_RowIndependenceNonNegative ==
    BothRuns =>
        \A i \in 1..Len(data) :
            (/\ prev.data[i] = data[i]
             /\ \A k \in 1..Len(data) :
                   k # i => ~RowHasNegative(prev.data[k]) /\ ~RowHasNegative(data[k]))
            => RowOutcome(prev.result, i) = RowOutcome(result, i)

\* Row 1 = [1, 1] was normalised to [1, 1] in both runs, beside a row of maximum 2 in
\* the first and a row of zeros in the second.
Wit_C10_SharedRowBothRuns ==
    /\ BothRuns
    /\ prev.data = << <<One, One>>, <<Num(2), Num(2)>> >>
    /\ data = << <<One, One>>, <<Zero, Zero>> >>
    /\ prev.result.kind = "ok"
    /\ result = Ok(2, << <<One, One>>, <<Zero, Zero>> >>)

==========================================================================
